---- MODULE Spec2Model ----
(***************************************************************************)
(* Model of src/index.py: WebRadioMonitor.fetch_metadata (the ICY frame    *)
(* scan and the title normalisation), submit_to_listenbrainz and the       *)
(* polling loop run.                                                       *)
(*                                                                         *)
(* Text and bytes are sequences of character codes (ASCII).  The byte      *)
(* alphabet of the streams is ASCII plus the byte 255, which is not valid  *)
(* in UTF-8 and is dropped by decode('utf-8', errors='ignore').            *)
(***************************************************************************)
EXTENDS Integers, Sequences, FiniteSets, TLC

(***************************************************************************)
(* Program constants.                                                      *)
(***************************************************************************)
\* for _ in range(10)
ScanBudget == 10
\* length = ord(length) * 16
BlockUnit == 16
\* if response.status_code != 200
StatusOK == 200

(***************************************************************************)
(* Bounds of the model.                                                    *)
(***************************************************************************)
\* number of accepted submissions remembered (a sliding window)
WindowLen == 2
\* saturation value of the counter of accepted placeholder submissions
MaxCount == 2
\* the intervals of the synthetic streams: 0..MaxInterval
MaxInterval == 3
\* the length bytes of the synthetic streams: 1..MaxLenByte
MaxLenByte == 2

(***************************************************************************)
(* Python values.                                                          *)
(***************************************************************************)
None == [none |-> TRUE]

\* 'StreamTitle='
StreamTitleKey == <<83,116,114,101,97,109,84,105,116,108,101,61>>
\* ' - '
Separator == <<32,45,32>>
\* ';'
Semicolon == <<59>>
\* "'"
QuoteChars == {39}
\* 'Unknown Artist'
UnknownArtist == <<85,110,107,110,111,119,110,32,65,114,116,105,115,116>>
\* 'Current Track'
CurrentTrack == <<67,117,114,114,101,110,116,32,84,114,97,99,107>>
\* the characters str.strip() and int() remove (ASCII range)
Whitespace == {9, 10, 11, 12, 13, 28, 29, 30, 31, 32}
\* '0'..'9'
Digits == 48..57

Min(a, b) == IF a < b THEN a ELSE b

(***************************************************************************)
(* Python string operations, on sequences of character codes.              *)
(***************************************************************************)
\* s[i:]  (i is 1-based here: the suffix starting at index i)
Suffix(s, i) == SubSeq(s, i, Len(s))

\* s.find(sub), 1-based, 0 when absent; the scan goes left to right
RECURSIVE FindFrom(_, _, _)
FindFrom(s, sub, i) ==
    IF i + Len(sub) - 1 > Len(s) THEN 0
    ELSE IF SubSeq(s, i, i + Len(sub) - 1) = sub THEN i
    ELSE FindFrom(s, sub, i + 1)

Find(s, sub) == FindFrom(s, sub, 1)

\* sub in s
Contains(s, sub) == Find(s, sub) # 0

\* F applied to the value of v: each call of the source evaluates its
\* argument once, before the call
Eval(v, F(_)) == CHOOSE y \in {F(x) : x \in {v}} : TRUE

\* s.split(sep, maxsplit); maxsplit = -1 is "no limit"
RECURSIVE SplitN(_, _, _)
SplitN(s, sep, maxsplit) ==
    Eval(Find(s, sep), LAMBDA i :
        IF maxsplit = 0 \/ i = 0 THEN <<s>>
        ELSE <<SubSeq(s, 1, i - 1)>> \o
             SplitN(Suffix(s, i + Len(sep)), sep,
                    IF maxsplit < 0 THEN maxsplit ELSE maxsplit - 1))

\* s.split(sep)
Split(s, sep) == SplitN(s, sep, -1)

\* s.lstrip(chars)
RECURSIVE LStrip(_, _)
LStrip(s, chars) ==
    IF s # <<>> /\ Head(s) \in chars THEN LStrip(Tail(s), chars) ELSE s

\* s.rstrip(chars)
RECURSIVE RStrip(_, _)
RStrip(s, chars) ==
    IF s # <<>> /\ s[Len(s)] \in chars
    THEN RStrip(SubSeq(s, 1, Len(s) - 1), chars) ELSE s

\* s.strip(chars)
StripChars(s, chars) == RStrip(LStrip(s, chars), chars)

\* s.strip()
Strip(s) == StripChars(s, Whitespace)

\* bytes.decode('utf-8', errors='ignore'): the undecodable bytes are dropped
Decode(bytes) == SelectSeq(bytes, LAMBDA b : b < 128)

\* int(s) succeeds: surrounding whitespace is ignored, the rest is digits
IsNumeric(s) ==
    LET t == Strip(s) IN t # <<>> /\ \A k \in 1..Len(t) : t[k] \in Digits

\* int(s) for a string on which it succeeds
RECURSIVE DigitsValue(_)
DigitsValue(t) ==
    IF t = <<>> THEN 0
    ELSE 10 * DigitsValue(SubSeq(t, 1, Len(t) - 1)) + (t[Len(t)] - 48)

ParseInt(s) == DigitsValue(Strip(s))

(***************************************************************************)
(* The title normalisation of fetch_metadata.                              *)
(***************************************************************************)
\* metadata.split('StreamTitle=')[1].split(';')[0].strip("'")
ExtractTitle(metadata) ==
    Eval(Split(metadata, StreamTitleKey)[2], LAMBDA rest :
        Eval(Split(rest, Semicolon)[1], LAMBDA value :
            StripChars(value, QuoteChars)))

\* variant: title.rsplit(' - ', 1)
SplitTitleLast(title) ==
    LET hits == {i \in 1..(Len(title) - Len(Separator) + 1) :
                    SubSeq(title, i, i + Len(Separator) - 1) = Separator}
        last == CHOOSE i \in hits : \A j \in hits : j <= i
    IN IF hits = {} THEN <<title>>
       ELSE <<SubSeq(title, 1, last - 1), Suffix(title, last + Len(Separator))>>

\* title.split(' - ', 1)
SplitTitle(title) == SplitN(title, Separator, 1)

\* the dict returned for an extracted title
TrackOfTitle(title) ==
    IF Contains(title, Separator)
    THEN Eval(SplitTitle(title), LAMBDA parts :
             [artist |-> Strip(parts[1]), track |-> Strip(parts[2])])
    ELSE [artist |-> UnknownArtist, track |-> Strip(title)]

\* the dict returned on the station-name path
StationFallback(name) == [artist |-> name, track |-> CurrentTrack]

\* 'Unknown Station'
UnknownStation ==
    <<85,110,107,110,111,119,110,32,83,116,97,116,105,111,110>>

\* variant: the test of the header left to the default of .get
HasStationNameAlways(headers) == TRUE

\* 'icy-name' in response.headers
HasStationName(headers) == "icy-name" \in DOMAIN headers

\* response.headers.get('icy-name', 'Unknown Station')
StationNameOf(headers) ==
    IF "icy-name" \in DOMAIN headers THEN headers["icy-name"]
    ELSE UnknownStation

\* variant: metadata.startswith('StreamTitle=')
HasTitlePrefix(text) ==
    /\ Len(text) >= Len(StreamTitleKey)
    /\ SubSeq(text, 1, Len(StreamTitleKey)) = StreamTitleKey

\* if metadata: if 'StreamTitle=' in metadata
HasTitle(text) == text # <<>> /\ Contains(text, StreamTitleKey)

(***************************************************************************)
(* The responses the stream server can give.                               *)
(***************************************************************************)
\* values of the icy-metaint header: '2', 'x', '2x'
MetaintValues == {<<50>>, <<120>>, <<50, 120>>}
\* values of the icy-name header: 'R1', 'R2'
StationNames == {<<82, 49>>, <<82, 50>>}

HeaderSets == SUBSET {"icy-metaint", "icy-name"}

\* response.headers: a mapping from the header names present to their values
Headers(present, m, n) ==
    [h \in present |-> IF h = "icy-metaint" THEN m ELSE n]

\* 16 bytes per unit of the length-prefix byte, NUL padded
RECURSIVE Zeros(_)
Zeros(n) == IF n <= 0 THEN <<>> ELSE <<0>> \o Zeros(n - 1)

LenByteFor(block) == (Len(block) + BlockUnit - 1) \div BlockUnit

\* one ICY frame: the audio bytes, the length-prefix byte, the padded block
Frame(audio, block) ==
    audio \o <<LenByteFor(block)>> \o block \o
    Zeros(LenByteFor(block) * BlockUnit - Len(block))

RECURSIVE Repeat(_, _)
Repeat(s, n) == IF n <= 0 THEN <<>> ELSE s \o Repeat(s, n - 1)

\* two audio bytes per frame (streams built for icy-metaint: 2)
Audio == <<1, 1>>

\* StreamTitle='A - B';
BlockAB == StreamTitleKey \o <<39, 65,32,45,32,66, 39, 59>>
\* StreamTitle='A - B - C';
BlockABC == StreamTitleKey \o <<39, 65,32,45,32,66,32,45,32,67, 39, 59>>
\* StreamTitle='AB';
BlockNoSep == StreamTitleKey \o <<39, 65,66, 39, 59>>
\* StreamTitle=' C  -  B ';StreamUrl='';
BlockSpaces == StreamTitleKey \o <<39, 32,67,32,32,45,32,32,66,32, 39, 59>>
               \o <<83,116,114,101,97,109,85,114,108,61, 39, 39, 59>>
\* StreamUrl='';
BlockNoTitle == <<83,116,114,101,97,109,85,114,108,61, 39, 39, 59>>
\* sixteen bytes that are not valid UTF-8
BlockInvalid == Repeat(<<255>>, BlockUnit)

\* StreamUrl='';StreamTitle='AB';
BlockUrlTitle == BlockNoTitle \o BlockNoSep

EmptyFrame == Frame(Audio, <<>>)

\* the bytes the server sends before the stream ends
Bodies ==
    { <<>>,
      <<1>>,
      Audio,
      Frame(Audio, BlockAB),
      EmptyFrame \o Frame(Audio, BlockABC),
      Frame(Audio, BlockNoTitle) \o Frame(Audio, BlockNoSep),
      Frame(Audio, BlockNoTitle) \o EmptyFrame,
      Frame(Audio, BlockInvalid) \o Frame(Audio, BlockSpaces),
      Frame(Audio, BlockNoTitle) \o Frame(Audio, BlockUrlTitle)
          \o Frame(Audio, BlockAB),
      Repeat(EmptyFrame, ScanBudget - 1) \o Frame(Audio, BlockAB),
      Repeat(EmptyFrame, ScanBudget) \o Frame(Audio, BlockNoSep),
      \* a frame announcing 32 bytes, cut after StreamTitle='A - B
      SubSeq(Frame(Audio, BlockABC), 1, 21) }

\* what a read past the last byte does: return what is left (end of
\* stream) or raise (connection dropped, read timeout)
EndKinds == {"eof", "error"}

\* response.raw.read(n) at cursor pos
Read(body, onEnd, pos, n) ==
    LET avail == Len(body) - pos IN
    IF n > avail /\ onEnd = "error"
    THEN [raised |-> TRUE, data |-> <<>>]
    ELSE [raised |-> FALSE,
          data |-> SubSeq(body, pos + 1, pos + Min(n, avail))]

\* the icy-metaint header of a stream with interval i
IntervalHeader(i) ==
    IF i < 10 THEN <<48 + i>> ELSE <<48 + (i \div 10), 48 + (i % 10)>>

\* the audio byte of the synthetic streams: 'a'
Filler == 97

\* StreamTitle='<invalid byte>A - B';
BlockMixed == StreamTitleKey \o <<39, 255, 65,32,45,32,66, 39, 59>>

\* metadata blocks of exactly n * 16 bytes
MetadataBlocks(n) ==
    { b \o Zeros(n * BlockUnit - Len(b)) :
        b \in { x \in {BlockAB, BlockABC, BlockNoTitle, BlockUrlTitle,
                       BlockMixed, Repeat(<<255>>, n * BlockUnit)} :
                  Len(x) <= n * BlockUnit } }

\* a stream of one frame: the interval, the length byte, the block
SyntheticStreams ==
    UNION { { [interval |-> i, lenByte |-> n, block |-> b] :
                b \in MetadataBlocks(n) } :
            i \in 0..MaxInterval, n \in 1..MaxLenByte }

StreamBody(s) ==
    Repeat(<<Filler>>, s.interval) \o <<s.lenByte>> \o s.block

\* outcomes of requests.post: a status code, or an exception
PostOutcomes ==
    {[status |-> c] : c \in {200, 401, 500}} \cup
    {[raises |-> e] : e \in {"Timeout", "RequestException", "Exception"}}

(***************************************************************************)
(* State.                                                                  *)
(***************************************************************************)
VARIABLES
    pc,           \* position of run / fetch_metadata
    last_track,   \* self.last_track
    response,     \* the response of requests.get: headers, body, end kind
    metaint,      \* fetch_metadata's local metaint
    pos,          \* cursor of response.raw
    iter,         \* iterations of the for loop completed
    metadata,     \* run's local metadata (the value fetch_metadata returned)
    via,          \* the return statement fetch_metadata left through
    title,        \* fetch_metadata's local title
    frames,       \* the frames read in this call, one record per iteration
    short_read,   \* a read of this call returned fewer bytes than asked
    errors,       \* the messages logged with logger.error in this cycle
    attempted,    \* submit_to_listenbrainz was called in this cycle
    submit_ok,    \* what submit_to_listenbrainz returned in this cycle
    prev_last,    \* last_track when the cycle began
    accepted,     \* the last dicts for which the submission returned True
    run_track,    \* the dict observed by the previous cycle
    run_fresh,    \* the run of equal observations began with another last_track
    run_done,     \* a submission of this run has succeeded
    run_done_before, \* run_done when this cycle compared
    env_hist,     \* the responses so far: none yet, all without interval
                  \* and with one station name, or mixed
    fallback_accepts, \* accepted submissions of the station placeholder
    stop,         \* the environment has asked the monitor to stop
    call          \* a call of submit_to_listenbrainz on its own: the
                  \* argument, what requests.post does, the result

progVars == <<pc, last_track, response, metaint, pos, iter, metadata>>
cycleVars == <<via, title, frames, short_read, errors, attempted, submit_ok>>
histVars == <<prev_last, accepted, run_track, run_fresh, run_done,
              run_done_before, env_hist, fallback_accepts>>
extVars == <<stop, call>>
vars == <<progVars, cycleVars, histVars, extVars>>

\* self.last_track = None; nothing fetched yet
InitRun ==
    /\ pc = "open"
    /\ last_track = None
    /\ response = None
    /\ metaint = 0
    /\ pos = 0
    /\ iter = 0
    /\ metadata = None
    /\ via = "none"
    /\ title = <<>>
    /\ frames = <<>>
    /\ short_read = FALSE
    /\ errors = {}
    /\ attempted = FALSE
    /\ submit_ok = "none"
    /\ prev_last = None
    /\ accepted = <<>>
    /\ run_track = None
    /\ run_fresh = FALSE
    /\ run_done = FALSE
    /\ run_done_before = FALSE
    /\ env_hist = [kind |-> "none"]
    /\ fallback_accepts = 0
    /\ stop = FALSE

Init == InitRun /\ call = [state |-> "idle"]

(***************************************************************************)
(* fetch_metadata.                                                         *)
(***************************************************************************)
\* variant: the exception is logged and raised again, ending run
FetchRaisedPropagates ==
    /\ errors' = errors \cup {"Error fetching ICY metadata"}
    /\ metadata' = None
    /\ via' = "error"
    /\ pc' = "crashed"

\* except Exception as e: self.logger.error(...); return None
FetchRaised ==
    /\ errors' = errors \cup {"Error fetching ICY metadata"}
    /\ metadata' = None
    /\ via' = "error"
    /\ pc' = "decide"

\* the responses seen so far, for the station placeholder
EnvAfter(hist, headers) ==
    LET now == IF "icy-metaint" \in DOMAIN headers
                  \/ "icy-name" \notin DOMAIN headers
               THEN [kind |-> "mixed"]
               ELSE [kind |-> "steady", name |-> headers["icy-name"]]
    IN IF hist.kind = "none" \/ hist = now THEN now ELSE [kind |-> "mixed"]

\* the body is read only when the interval was parsed
BodiesFor(headers, bodies) ==
    IF "icy-metaint" \in DOMAIN headers /\ IsNumeric(headers["icy-metaint"])
    THEN bodies \X EndKinds
    ELSE {<<(<<>>), "eof">>}

\* the responses requests.get can return, for given header values and bodies
ResponsesOf(metaints, names, bodies) ==
    UNION { LET headers == Headers(present, m, n) IN
            { [headers |-> headers, body |-> b[1], onEnd |-> b[2]] :
                b \in BodiesFor(headers, bodies) } :
            present \in HeaderSets, m \in metaints, n \in names }

Responses == ResponsesOf(MetaintValues, StationNames, Bodies)

\* a stream, a truncated stream and an empty one, of one station
LiveResponses ==
    ResponsesOf({<<50>>, <<120>>}, {<<82, 49>>},
                {<<>>, Frame(Audio, BlockAB),
                 SubSeq(Frame(Audio, BlockNoSep), 1, 12),
                 Repeat(EmptyFrame, ScanBudget + 1)})

\* the synthetic one-frame streams, with and without a station name
FrameResponses ==
    { [headers |-> Headers(present, IntervalHeader(s.interval), <<82, 49>>),
       body |-> StreamBody(s),
       onEnd |-> e] :
        present \in {{"icy-metaint"}, {"icy-metaint", "icy-name"}},
        s \in SyntheticStreams,
        e \in EndKinds }

\* requests.get raises (timeout, connection error)
OpenFail ==
    /\ pc = "open"
    /\ UNCHANGED extVars
    /\ FetchRaised
    /\ UNCHANGED <<last_track, response, metaint, pos, iter>>
    /\ UNCHANGED <<title, frames, short_read, attempted, submit_ok>>
    /\ UNCHANGED histVars

\* requests.get returns a response
OpenStreamOf(responses) ==
    /\ pc = "open"
    /\ UNCHANGED extVars
    /\ \E r \in responses :
         /\ response' = r
         /\ env_hist' = EnvAfter(env_hist, r.headers)
    /\ pc' = "headers"
    /\ UNCHANGED <<last_track, metaint, pos, iter, metadata>>
    /\ UNCHANGED cycleVars
    /\ UNCHANGED <<prev_last, accepted, run_track, run_fresh, run_done,
                   run_done_before, fallback_accepts>>

\* if 'icy-metaint' in response.headers: metaint = int(...)
ParseInterval ==
    /\ pc = "headers"
    /\ UNCHANGED extVars
    /\ "icy-metaint" \in DOMAIN response.headers
    /\ IsNumeric(response.headers["icy-metaint"])
    /\ metaint' = ParseInt(response.headers["icy-metaint"])
    /\ pc' = "scan"
    /\ UNCHANGED <<last_track, response, pos, iter, metadata>>
    /\ UNCHANGED cycleVars
    /\ UNCHANGED histVars

\* int(...) raises ValueError
ParseIntervalFails ==
    /\ pc = "headers"
    /\ UNCHANGED extVars
    /\ "icy-metaint" \in DOMAIN response.headers
    /\ ~IsNumeric(response.headers["icy-metaint"])
    /\ FetchRaised
    /\ UNCHANGED <<last_track, response, metaint, pos, iter>>
    /\ UNCHANGED <<title, frames, short_read, attempted, submit_ok>>
    /\ UNCHANGED histVars

\* 'icy-metaint' not in response.headers
NoInterval ==
    /\ pc = "headers"
    /\ UNCHANGED extVars
    /\ "icy-metaint" \notin DOMAIN response.headers
    /\ pc' = "fallback"
    /\ UNCHANGED <<last_track, response, metaint, pos, iter, metadata>>
    /\ UNCHANGED cycleVars
    /\ UNCHANGED histVars

\* variant: the length byte counted from one
BlockLengthPlusOne(lenByte) == (lenByte + 1) * BlockUnit

\* variant: length = ord(length)
BlockLengthBytes(lenByte) == lenByte

\* length = ord(length) * 16
BlockLength(lenByte) == lenByte * BlockUnit

\* variant: range(11)
RangeExhaustedLate(n) == n >= ScanBudget + 1

\* variant: range(9)
RangeExhaustedEarly(n) == n >= ScanBudget - 1

\* for _ in range(10): the loop ends after n iterations
RangeExhausted(n) == n >= ScanBudget

\* variant: the frame without title ends the loop (else: break)
AfterIterationBreak(n) == "fallback"

\* the for loop after n iterations: the next one, or line 66
AfterIteration(n) == IF RangeExhausted(n) THEN "fallback" ELSE "scan"

\* one iteration of the for loop: the three reads and what they gave
ScanIteration(body, onEnd, p0, mi) ==
    LET skip == Read(body, onEnd, p0, mi)
        p1 == p0 + Len(skip.data)
        lenr == Read(body, onEnd, p1, 1)
        p2 == p1 + Len(lenr.data)
        hasLen == ~skip.raised /\ ~lenr.raised /\ lenr.data # <<>>
        length == IF hasLen THEN BlockLength(lenr.data[1]) ELSE 0
        blk == IF length > 0 THEN Read(body, onEnd, p2, length)
               ELSE [raised |-> FALSE, data |-> <<>>]
        text == Decode(blk.data)
    IN [raised |-> skip.raised \/ lenr.raised \/ blk.raised,
        start |-> p0,
        lenPos |-> p1,
        lenByte |-> IF hasLen THEN lenr.data[1] ELSE -1,
        length |-> length,
        raw |-> blk.data,
        text |-> text,
        end |-> p2 + Len(blk.data),
        short |-> \/ skip.raised \/ lenr.raised \/ blk.raised
                  \/ Len(skip.data) < mi
                  \/ lenr.data = <<>>
                  \/ Len(blk.data) < length,
        found |-> length > 0 /\ HasTitle(text)]

ThisIteration ==
    ScanIteration(response.body, response.onEnd, pos, metaint)

\* a read of the iteration raises
ScanRaises ==
    /\ pc = "scan"
    /\ UNCHANGED extVars
    /\ ThisIteration.raised
    /\ FetchRaised
    /\ short_read' = TRUE
    /\ UNCHANGED <<last_track, response, metaint, pos, iter>>
    /\ UNCHANGED <<title, frames, attempted, submit_ok>>
    /\ UNCHANGED histVars

\* the block holds 'StreamTitle=': return the dict
ScanReturns ==
    /\ pc = "scan"
    /\ UNCHANGED extVars
    /\ \E r \in {ThisIteration} :
         /\ ~r.raised
         /\ r.found
         /\ \E t \in {ExtractTitle(r.text)} :
              /\ title' = t
              /\ metadata' = TrackOfTitle(t)
         /\ pos' = r.end
         /\ frames' = Append(frames, r)
         /\ short_read' = (short_read \/ r.short)
    /\ via' = "title"
    /\ pc' = "decide"
    /\ UNCHANGED <<last_track, response, metaint, iter>>
    /\ UNCHANGED <<errors, attempted, submit_ok>>
    /\ UNCHANGED histVars

\* no length byte, a zero length, an empty text or no 'StreamTitle=':
\* the loop goes on, or ends after range(10)
ScanContinues ==
    /\ pc = "scan"
    /\ UNCHANGED extVars
    /\ \E r \in {ThisIteration} :
         /\ ~r.raised
         /\ ~r.found
         /\ pos' = r.end
         /\ frames' = Append(frames, r)
         /\ short_read' = (short_read \/ r.short)
    /\ iter' = iter + 1
    /\ pc' = AfterIteration(iter + 1)
    /\ UNCHANGED <<last_track, response, metaint, metadata>>
    /\ UNCHANGED <<via, title, errors, attempted, submit_ok>>
    /\ UNCHANGED histVars

\* if 'icy-name' in response.headers: return the station placeholder
ReturnStation ==
    /\ pc = "fallback"
    /\ UNCHANGED extVars
    /\ HasStationName(response.headers)
    /\ metadata' = StationFallback(StationNameOf(response.headers))
    /\ via' = "fallback"
    /\ pc' = "decide"
    /\ UNCHANGED <<last_track, response, metaint, pos, iter>>
    /\ UNCHANGED <<title, frames, short_read, errors, attempted, submit_ok>>
    /\ UNCHANGED histVars

\* self.logger.error("No ICY metadata found in stream"); return None
ReturnNoMetadata ==
    /\ pc = "fallback"
    /\ UNCHANGED extVars
    /\ ~HasStationName(response.headers)
    /\ errors' = errors \cup {"No ICY metadata found in stream"}
    /\ metadata' = None
    /\ via' = "nometa"
    /\ pc' = "decide"
    /\ UNCHANGED <<last_track, response, metaint, pos, iter>>
    /\ UNCHANGED <<title, frames, short_read, attempted, submit_ok>>
    /\ UNCHANGED histVars

(***************************************************************************)
(* submit_to_listenbrainz.                                                 *)
(***************************************************************************)
\* Python values: None, a str, an int, a dict from keys to values
PyNone == [type |-> "NoneType"]
PyStr(s) == [type |-> "str", chars |-> s]
PyInt(n) == [type |-> "int", n |-> n]
PyDict(items) == [type |-> "dict", items |-> items]

\* bool(v): what `not metadata` negates
Truthy(v) ==
    CASE v.type = "NoneType" -> FALSE
      [] v.type = "str" -> v.chars # <<>>
      [] v.type = "int" -> v.n # 0
      [] v.type = "dict" -> DOMAIN v.items # {}

\* metadata.get(key)
DictGet(d, key) == IF key \in DOMAIN d.items THEN d.items[key] ELSE PyNone

\* isinstance(v, str)
IsStr(v) == v.type = "str"

\* variant: only the artist is tested
ValidMetadataArtistOnly(arg) == IsStr(DictGet(arg, "artist"))

\* both fields pass isinstance(..., str)
ValidMetadata(arg) ==
    IsStr(DictGet(arg, "artist")) /\ IsStr(DictGet(arg, "track"))

\* the exceptions the except clauses of submit_to_listenbrainz catch:
\* Timeout, RequestException and Exception (every other one)
Caught(exc) ==
    exc \in {"Timeout", "RequestException", "Exception", "AttributeError"}

\* one call of submit_to_listenbrainz, given what requests.post does:
\* the value returned, whether the POST was sent, whether an exception
\* left the call, the messages logged with logger.error
SubmitCall(arg, outcome) ==
    IF ~Truthy(arg)
    THEN [returns |-> FALSE, posted |-> FALSE, raised |-> FALSE,
          errors |-> {"No metadata provided for submission"}]
    ELSE IF arg.type # "dict"
    THEN \* metadata.get raises AttributeError inside the try
         [returns |-> FALSE, posted |-> FALSE,
          raised |-> ~Caught("AttributeError"),
          errors |-> {"Unexpected error submitting to ListenBrainz"}]
    ELSE IF ~ValidMetadata(arg)
    THEN [returns |-> FALSE, posted |-> FALSE, raised |-> FALSE,
          errors |-> {"Invalid metadata format"}]
    ELSE IF "raises" \in DOMAIN outcome
    THEN [returns |-> FALSE, posted |-> TRUE,
          raised |-> ~Caught(outcome.raises),
          errors |-> {IF outcome.raises = "Timeout"
                      THEN "Timeout while submitting to ListenBrainz"
                      ELSE IF outcome.raises = "RequestException"
                      THEN "Network error while submitting to ListenBrainz"
                      ELSE "Unexpected error submitting to ListenBrainz"}]
    ELSE IF outcome.status # StatusOK
    THEN [returns |-> FALSE, posted |-> TRUE, raised |-> FALSE,
          errors |-> {"ListenBrainz API error"}]
    ELSE [returns |-> TRUE, posted |-> TRUE, raised |-> FALSE,
          errors |-> {}]

\* the argument run passes: the value fetch_metadata returned
PyArg(md) ==
    IF md = None THEN PyNone
    ELSE PyDict([artist |-> PyStr(md.artist), track |-> PyStr(md.track)])

\* the value submit_to_listenbrainz returns to run
SubmitResult(md, outcome) == SubmitCall(PyArg(md), outcome).returns

\* the messages submit_to_listenbrainz logs with logger.error
SubmitErrors(md, outcome) == SubmitCall(PyArg(md), outcome).errors

\* the arguments of the calls of submit_to_listenbrainz on its own
FieldValues ==
    {PyStr(<<65>>), PyStr(<<66>>), PyStr(<<>>), PyInt(5), PyNone}

SubmitArgs ==
    {PyNone, PyStr(<<>>), PyStr(<<65>>), PyInt(0), PyInt(5)} \cup
    {PyDict(items) :
        items \in UNION {[keys -> FieldValues] :
                            keys \in SUBSET {"artist", "track"}}}

\* submit_to_listenbrainz(arg) returns
SubmitReturns ==
    /\ call.state = "called"
    /\ \E o \in PostOutcomes :
         call' = [state |-> "returned", arg |-> call.arg, outcome |-> o,
                  result |-> SubmitCall(call.arg, o)]
    /\ UNCHANGED <<progVars, cycleVars, histVars, stop>>

\* a monitor just constructed, and one call submit_to_listenbrainz(arg)
SubmitInit ==
    /\ InitRun
    /\ call \in {[state |-> "called", arg |-> a] : a \in SubmitArgs}

\* submit_to_listenbrainz called on each argument of SubmitArgs
SubmitSpec == SubmitInit /\ [][SubmitReturns]_vars

(***************************************************************************)
(* run.                                                                    *)
(***************************************************************************)
\* variant: only the track names are compared
IsNewTrackTrackOnly(md, last) ==
    md # None /\ (IF last = None THEN TRUE ELSE md.track # last.track)

\* variant: the comparison with self.last_track left out
IsNewTrackAlways(md, last) == md # None

\* variant: the test `metadata and` left out
IsNewTrackNoTruthiness(md, last) == md # last

\* if metadata and metadata != self.last_track
IsNewTrack(md, last) == md # None /\ md # last

\* the run of consecutive cycles that observe the same dict
RunObserved ==
    LET cont == metadata # None /\ metadata = run_track
        fresh == IF cont THEN run_fresh
                 ELSE metadata # None /\ metadata # last_track
        done == cont /\ run_done
    IN /\ run_track' = metadata
       /\ run_fresh' = fresh
       /\ run_done' = done
       /\ run_done_before' = done

\* the condition holds: log the new track and call submit_to_listenbrainz
NewTrack ==
    /\ pc = "decide"
    /\ UNCHANGED extVars
    /\ IsNewTrack(metadata, last_track)
    /\ attempted' = TRUE
    /\ pc' = "submit"
    /\ RunObserved
    /\ UNCHANGED <<last_track, response, metaint, pos, iter, metadata>>
    /\ UNCHANGED <<via, title, frames, short_read, errors, submit_ok>>
    /\ UNCHANGED <<prev_last, accepted, env_hist, fallback_accepts>>

\* the condition fails: nothing to submit
NoNewTrack ==
    /\ pc = "decide"
    /\ UNCHANGED extVars
    /\ ~IsNewTrack(metadata, last_track)
    /\ pc' = "sleep"
    /\ RunObserved
    /\ UNCHANGED <<last_track, response, metaint, pos, iter, metadata>>
    /\ UNCHANGED cycleVars
    /\ UNCHANGED <<prev_last, accepted, env_hist, fallback_accepts>>

\* the window of the last accepted dicts
Remember(window, md) ==
    LET w == Append(window, md) IN
    IF Len(w) > WindowLen THEN Tail(w) ELSE w

\* variant: self.last_track = metadata placed before the if
LastTrackAfterAlways(last, md, ok) == md

\* variant: the assignment self.last_track = metadata left out
LastTrackAfterNever(last, md, ok) == last

\* self.last_track after submit_to_listenbrainz returned ok
LastTrackAfter(last, md, ok) == IF ok THEN md ELSE last

\* submit_to_listenbrainz returns True: self.last_track = metadata
SubmitAccepted ==
    /\ pc = "submit"
    /\ UNCHANGED extVars
    /\ \E o \in PostOutcomes : SubmitResult(metadata, o)
    /\ last_track' = LastTrackAfter(last_track, metadata, TRUE)
    /\ submit_ok' = "True"
    /\ accepted' = Remember(accepted, metadata)
    /\ run_done' = TRUE
    /\ fallback_accepts' = IF via = "fallback"
                           THEN Min(fallback_accepts + 1, MaxCount)
                           ELSE fallback_accepts
    /\ pc' = "sleep"
    /\ UNCHANGED <<response, metaint, pos, iter, metadata>>
    /\ UNCHANGED <<via, title, frames, short_read, errors, attempted>>
    /\ UNCHANGED <<prev_last, run_track, run_fresh, run_done_before, env_hist>>

\* submit_to_listenbrainz returns False: log the failure
SubmitFailed ==
    /\ pc = "submit"
    /\ UNCHANGED extVars
    /\ \E o \in PostOutcomes :
         /\ ~SubmitResult(metadata, o)
         /\ errors' = errors \cup SubmitErrors(metadata, o)
                             \cup {"Failed to submit to ListenBrainz"}
    /\ last_track' = LastTrackAfter(last_track, metadata, FALSE)
    /\ submit_ok' = "False"
    /\ pc' = "sleep"
    /\ UNCHANGED <<response, metaint, pos, iter, metadata>>
    /\ UNCHANGED <<via, title, frames, short_read, attempted>>
    /\ UNCHANGED histVars

\* time.sleep(check_interval), then the next iteration of while True
Sleep ==
    /\ pc = "sleep"
    /\ UNCHANGED extVars
    /\ pc' = "open"
    /\ response' = None
    /\ metaint' = 0
    /\ pos' = 0
    /\ iter' = 0
    /\ metadata' = None
    /\ via' = "none"
    /\ title' = <<>>
    /\ frames' = <<>>
    /\ short_read' = FALSE
    /\ errors' = {}
    /\ attempted' = FALSE
    /\ submit_ok' = "none"
    /\ prev_last' = last_track
    /\ run_done_before' = FALSE
    /\ UNCHANGED <<last_track, accepted, run_track, run_fresh, run_done,
                   env_hist, fallback_accepts>>

OpenStream == OpenStreamOf(Responses)

OpenStreamLive == OpenStreamOf(LiveResponses)

Next ==
    \/ OpenFail
    \/ OpenStream
    \/ ParseInterval
    \/ ParseIntervalFails
    \/ NoInterval
    \/ ScanRaises
    \/ ScanReturns
    \/ ScanContinues
    \/ ReturnStation
    \/ ReturnNoMetadata
    \/ NewTrack
    \/ NoNewTrack
    \/ SubmitAccepted
    \/ SubmitFailed
    \/ Sleep

Spec == Init /\ [][Next]_vars

\* the same program against the responses of LiveResponses
LiveNext ==
    \/ OpenFail
    \/ OpenStreamLive
    \/ ParseInterval
    \/ ParseIntervalFails
    \/ NoInterval
    \/ ScanRaises
    \/ ScanReturns
    \/ ScanContinues
    \/ ReturnStation
    \/ ReturnNoMetadata
    \/ NewTrack
    \/ NoNewTrack
    \/ SubmitAccepted
    \/ SubmitFailed
    \/ Sleep

\* the process keeps running (requests.get, raw.read and requests.post
\* return or raise, time.sleep returns): an enabled step is taken
LiveSpec == Init /\ [][LiveNext]_vars /\ WF_vars(LiveNext)

OpenFrameStream == OpenStreamOf(FrameResponses)

\* one call of fetch_metadata on a synthetic stream
FrameNext ==
    \/ OpenFrameStream
    \/ ParseInterval
    \/ ScanRaises
    \/ ScanReturns
    \/ ScanContinues
    \/ ReturnStation
    \/ ReturnNoMetadata

FrameSpec == Init /\ [][FrameNext]_vars

\* the environment asks the monitor to stop; run reads no such signal
RequestStop ==
    /\ ~stop
    /\ stop' = TRUE
    /\ UNCHANGED <<progVars, cycleVars, histVars, call>>

\* run, and an environment that may ask it to stop at any moment
StopNext ==
    \/ OpenFail
    \/ OpenStreamLive
    \/ ParseInterval
    \/ ParseIntervalFails
    \/ NoInterval
    \/ ScanRaises
    \/ ScanReturns
    \/ ScanContinues
    \/ ReturnStation
    \/ ReturnNoMetadata
    \/ NewTrack
    \/ NoNewTrack
    \/ SubmitAccepted
    \/ SubmitFailed
    \/ Sleep
    \/ RequestStop

StopSpec == Init /\ [][StopNext]_vars

\* the whole frames of a stream from cursor p, at most n of them
RECURSIVE StreamFrames(_, _, _, _)
StreamFrames(body, mi, p, n) ==
    IF n = 0 \/ p + mi + 1 > Len(body)
    THEN <<>>
    ELSE LET end == p + mi + 1 + body[p + mi + 1] * BlockUnit IN
         IF end > Len(body)
         THEN <<>>
         ELSE <<[start |-> p,
                 end |-> end,
                 text |-> Decode(SubSeq(body, p + mi + 2, end))]>>
              \o StreamFrames(body, mi, end, n - 1)

(***************************************************************************)
(* The cycle has left fetch_metadata.                                      *)
(***************************************************************************)
Fetched == pc \in {"decide", "submit", "sleep"}

HasResponse == "headers" \in DOMAIN response

(***************************************************************************)
(* Properties.                                                             *)
(***************************************************************************)
\* C1: last_track is None or the dict of the latest submission that
\* returned True, and a cycle whose submission returned False ends with
\* last_track as it was when the cycle began.
C1_LastTrackOnlyAfterSuccess ==
    /\ \/ last_track = None
       \/ accepted # <<>> /\ last_track = accepted[Len(accepted)]
    /\ (pc = "sleep" /\ submit_ok = "False") => last_track = prev_last

C1_Witness ==
    /\ pc = "sleep"
    /\ submit_ok = "False"
    /\ last_track # None
    /\ metadata # last_track

\* C2: in a cycle whose fetch gave a dict, a submission is attempted if and
\* only if last_track was unset or differs from the dict in artist or track.
C2_ReportIffDifferent ==
    (pc \in {"submit", "sleep"} /\ metadata # None) =>
        (attempted <=>
            \/ prev_last = None
            \/ metadata.artist # prev_last.artist
            \/ metadata.track # prev_last.track)

C2_Witness ==
    /\ pc = "sleep"
    /\ metadata # None
    /\ prev_last # None
    /\ metadata.track = prev_last.track
    /\ metadata.artist # prev_last.artist
    /\ attempted

\* C3: in a run of consecutive cycles observing the same dict that began
\* with another last_track, a cycle attempts the submission if and only
\* if no earlier cycle of the run had its submission accepted.
C3_RetryUntilAccepted ==
    (pc \in {"submit", "sleep"} /\ metadata # None /\ run_fresh) =>
        (attempted <=> ~run_done_before)

C3_Witness ==
    /\ pc = "sleep"
    /\ metadata # None
    /\ run_fresh
    /\ run_done_before
    /\ ~attempted

\* C4 (as claimed): once a read of the audio skip, the length byte or the
\* block came back short, the call has ended through the error path.
C4_ShortReadIsError == short_read => via = "error"

C6_ZeroLengthFrame ==
    [][ (/\ pc = "scan"
         /\ pos + metaint < Len(response.body)
         /\ response.body[pos + metaint + 1] = 0)
        => /\ pos' = pos + metaint + 1
           /\ pc' \in {"scan", "fallback"}
           /\ iter' = iter + 1
           /\ errors' = errors
           /\ metadata' = metadata
           /\ via' = via
           /\ frames'[Len(frames')].raw = <<>> ]_vars

C6_Witness ==
    /\ pc = "scan"
    /\ frames # <<>>
    /\ frames[Len(frames)].lenByte = 0
    /\ pos = frames[Len(frames)].lenPos + 1

\* C7: while every response so far declared no interval and carried the
\* same icy-name, the placeholder has been accepted at most once and no
\* submission is attempted once it has been accepted.
C7_PlaceholderOnce ==
    env_hist.kind = "steady" =>
        /\ fallback_accepts <= 1
        /\ fallback_accepts >= 1 => pc # "submit"

C7_Witness ==
    /\ env_hist.kind = "steady"
    /\ fallback_accepts = 1
    /\ pc = "sleep"
    /\ via = "fallback"
    /\ submit_ok = "none"

\* C8: after any logged failure of a cycle run reaches the delay, and run
\* begins cycles for ever.
C8_RunNeverStops ==
    /\ (errors # {}) ~> (pc = "sleep")
    /\ (pc = "sleep") ~> (pc = "open")
    /\ []<>(pc = "open")

C8_Witness ==
    /\ pc = "sleep"
    /\ "Error fetching ICY metadata" \in errors

\* C9 (as claimed): with a non-numeric icy-metaint header the call returns
\* what it returns without that header: the placeholder when icy-name is
\* present, the no-metadata outcome otherwise, not the error path.
C9_NonNumericAsAbsent ==
    (/\ Fetched
     /\ HasResponse
     /\ "icy-metaint" \in DOMAIN response.headers
     /\ ~IsNumeric(response.headers["icy-metaint"]))
    => /\ via # "error"
       /\ metadata = IF "icy-name" \in DOMAIN response.headers
                     THEN StationFallback(response.headers["icy-name"])
                     ELSE None

\* C10: for an extracted title with ' - ', artist is the text before the
\* first ' - ' and track all the text after it, both trimmed; without
\* ' - ', artist is 'Unknown Artist' and track the trimmed title; both
\* keys are always present.
C10_TitleSplit ==
    via = "title" =>
        LET n == Len(title)
            seps == {i \in 1..n : i + 2 <= n /\ title[i] = 32
                                  /\ title[i + 1] = 45 /\ title[i + 2] = 32}
            Trimmed(s) ==
                LET keep == {k \in 1..Len(s) : s[k] \notin Whitespace} IN
                IF keep = {} THEN <<>>
                ELSE SubSeq(s, CHOOSE a \in keep : \A k \in keep : a <= k,
                               CHOOSE b \in keep : \A k \in keep : b >= k)
        IN /\ DOMAIN metadata = {"artist", "track"}
           /\ IF seps # {}
              THEN LET first == CHOOSE i \in seps : \A j \in seps : i <= j IN
                   /\ metadata.artist = Trimmed(SubSeq(title, 1, first - 1))
                   /\ metadata.track = Trimmed(SubSeq(title, first + 3, n))
              ELSE /\ metadata.artist = UnknownArtist
                   /\ metadata.track = Trimmed(title)

C10_Witness ==
    /\ via = "title"
    /\ title = <<65,32,45,32,66,32,45,32,67>>
    /\ metadata.track = <<66,32,45,32,67>>

\* C11 (as stated): the first iteration on a synthetic stream consumes
\* interval + 1 + L*16 bytes and its block text is exactly the L*16
\* metadata bytes.
C11_BlockTextIsMetadataBytes ==
    frames # <<>> =>
        LET end == metaint + 1 + response.body[metaint + 1] * 16 IN
        /\ frames[1].end = end
        /\ frames[1].text = SubSeq(response.body, metaint + 2, end)

\* C11 (amended): the first iteration on a synthetic stream consumes
\* interval + 1 + L*16 bytes, reads as block exactly the L*16 metadata
\* bytes, and its block text is those bytes in order without the bytes
\* that are not valid UTF-8; nothing is added or taken from the filler.
C11_BlockTextIsDecodedBytes ==
    frames # <<>> =>
        LET end == metaint + 1 + response.body[metaint + 1] * 16
            block == SubSeq(response.body, metaint + 2, end)
        IN /\ metaint = Len(response.body) - 1 - Len(block)
           /\ frames[1].start = 0
           /\ frames[1].end = end
           /\ frames[1].raw = block
           /\ frames[1].text = SelectSeq(block, LAMBDA b : b < 128)
           /\ (\A k \in 1..Len(block) : block[k] < 128) =>
                 frames[1].text = block

C11_Witness ==
    /\ frames # <<>>
    /\ metaint = MaxInterval
    /\ frames[1].lenByte = MaxLenByte
    /\ frames[1].text # frames[1].raw
    /\ frames[1].text # <<>>
    /\ via = "title"

\* C12: a response with neither icy-metaint nor icy-name ends the call with
\* the logged no-metadata outcome; the cycle attempts no submission and
\* leaves last_track as it was.
C12_NoHeadersNoMetadata ==
    (Fetched /\ HasResponse /\ DOMAIN response.headers = {}) =>
        /\ metadata = None
        /\ via = "nometa"
        /\ "No ICY metadata found in stream" \in errors
        /\ pc # "submit"
        /\ ~attempted
        /\ last_track = prev_last

C12_Witness ==
    /\ pc = "sleep"
    /\ HasResponse
    /\ DOMAIN response.headers = {}
    /\ last_track # None

\* C13: once the stop signal is raised, run begins no new cycle: from the
\* top of the loop it makes no fetch, and from the delay it does not go
\* back to the top of the loop.
C13_NoCycleAfterStop ==
    [][ (stop /\ pc \in {"open", "sleep"}) => pc' = pc ]_vars

\* C14: an iteration that reads a whole block in which 'StreamTitle=' does
\* not occur logs nothing and returns nothing: the cursor is after the
\* block and the loop goes to its next iteration, or ends after the tenth.
C14_BlockWithoutTitle ==
    [][ (/\ pc = "scan"
         /\ LET p == pos + metaint
                body == response.body
            IN /\ p < Len(body)
               /\ body[p + 1] > 0
               /\ p + 1 + body[p + 1] * 16 <= Len(body)
               /\ ~Contains(SelectSeq(SubSeq(body, p + 2,
                                             p + 1 + body[p + 1] * 16),
                                      LAMBDA b : b < 128),
                            StreamTitleKey))
        => /\ pos' = pos + metaint + 1 + response.body[pos + metaint + 1] * 16
           /\ errors' = errors
           /\ metadata' = metadata
           /\ via' = via
           /\ iter' = iter + 1
           /\ pc' = IF iter + 1 < 10 THEN "scan" ELSE "fallback" ]_vars

C14_Witness ==
    /\ pc = "scan"
    /\ frames # <<>>
    /\ frames[Len(frames)].lenByte > 0
    /\ ~frames[Len(frames)].short
    /\ frames[Len(frames)].text # <<>>
    /\ errors = {}

\* C15: a call of fetch_metadata reads at most 10 frames in at most 10
\* iterations of its loop, and a call that has begun to scan leaves
\* fetch_metadata with its result.
C15_ScanBounded ==
    /\ [](/\ Len(frames) <= 10
          /\ iter <= 10
          /\ (pc = "scan" => iter < 10))
    /\ ((pc = "scan") ~> Fetched)

C15_Witness ==
    /\ pc = "fallback"
    /\ iter = 10
    /\ Len(frames) = 10
    /\ ~short_read
    /\ pos < Len(response.body)

\* C16: two submissions accepted one after the other are never of the same
\* artist and track.
C16_NoAdjacentDuplicates ==
    \A k \in 1..(Len(accepted) - 1) : accepted[k] # accepted[k + 1]

C16_Witness ==
    /\ Len(accepted) = WindowLen
    /\ pc = "sleep"
    /\ submit_ok = "True"

\* C17: a cycle whose fetch returned None goes to the delay without a
\* submission and with last_track unchanged, and when the cycle after it
\* fetches the dict last_track holds, that cycle submits nothing either.
C17_NoneLeavesLastTrack ==
    [][ /\ (pc = "decide" /\ metadata = None) =>
              (pc' = "sleep" /\ ~attempted' /\ last_track' = last_track)
        /\ (pc = "sleep" /\ metadata = None) =>
              (~attempted /\ last_track = prev_last
               /\ last_track' = last_track)
        /\ (/\ pc = "decide"
            /\ run_track = None
            /\ last_track # None
            /\ metadata = last_track) =>
              (pc' = "sleep" /\ ~attempted') ]_vars

C17_Witness ==
    /\ pc = "sleep"
    /\ metadata # None
    /\ metadata = last_track
    /\ prev_last = last_track
    /\ ~attempted
    /\ run_track = metadata
    /\ ~run_fresh
    /\ ~run_done

\* C18: when all reads are full, the k-th iteration reads the k-th frame of
\* the stream, no frame read before the last one contains 'StreamTitle=',
\* and the call returns a title exactly when the last frame read contains
\* it: the dict is the one of that frame and the cursor is at its end.
C18_EarliestTitleFrame ==
    (HasResponse /\ frames # <<>> /\ ~short_read) =>
        LET sf == StreamFrames(response.body, metaint, 0, 10)
            n == Len(frames)
        IN /\ n <= Len(sf)
           /\ \A k \in 1..n : /\ frames[k].start = sf[k].start
                              /\ frames[k].end = sf[k].end
           /\ \A k \in 1..(n - 1) : ~Contains(sf[k].text, StreamTitleKey)
           /\ pos = sf[n].end
           /\ (via = "title") <=> Contains(sf[n].text, StreamTitleKey)
           /\ (via = "title") =>
                 metadata = TrackOfTitle(ExtractTitle(sf[n].text))

C18_Witness ==
    /\ via = "title"
    /\ ~short_read
    /\ Len(frames) = 2
    /\ frames[1].text # <<>>
    /\ pos < Len(response.body)

\* C19: submit_to_listenbrainz returns True exactly when the argument is a
\* dict whose artist and track are strings and the POST was answered with
\* status 200; it never raises, and it sends no request for an argument
\* that is empty or has a missing or non-string field.
C19_SubmitContract ==
    call.state = "returned" =>
        LET arg == call.arg
            StrAt(key) ==
                /\ key \in DOMAIN arg.items
                /\ arg.items[key].type = "str"
            wellFormed ==
                /\ arg.type = "dict"
                /\ StrAt("artist")
                /\ StrAt("track")
            answered200 ==
                /\ "status" \in DOMAIN call.outcome
                /\ call.outcome.status = 200
        IN /\ call.result.returns <=> (wellFormed /\ answered200)
           /\ ~call.result.raised
           /\ call.result.posted <=> wellFormed
           /\ ~call.result.returns => call.result.errors # {}

C19_Witness ==
    /\ call.state = "returned"
    /\ call.arg.type = "dict"
    /\ DOMAIN call.arg.items = {"artist", "track"}
    /\ call.arg.items["artist"].type = "str"
    /\ call.arg.items["track"].type = "int"
    /\ ~call.result.returns
    /\ ~call.result.posted

====
